---- MODULE Spec2Model ----
(***************************************************************************)
(* State-machine model of the messaging backend in src/main.py and         *)
(* src/schemas.py: the two document collections ("user", "requestitem"),   *)
(* the HTTP handlers that read and write them, and the response each       *)
(* handler produces.                                                       *)
(*                                                                         *)
(* Conventions                                                             *)
(*   - Python's Optional[T] is a sequence of length <= 1: None is <<>>,    *)
(*     a present value x is <<x>>.                                         *)
(*   - A text identifier (the user_id path/query parameter) is a sequence  *)
(*     of one-character strings, so that its length and its characters can *)
(*     be inspected the way bson's ObjectId constructor inspects them.     *)
(*   - A collection is a sequence of documents in insertion order.         *)
(***************************************************************************)
EXTENDS Naturals, Sequences, FiniteSets

VARIABLES
    users,       \* db["user"]: sequence of User documents, insertion order
    requestitem, \* db["requestitem"]: sequence of RequestItem documents
    inflight,    \* per worker: the signup handler's position and locals
    resp,        \* what the handler step just taken returned to its caller
    issued       \* history: the successful signup responses, with the
                 \* credentials the caller used (what the callers know)

vars == <<users, requestitem, inflight, resp, issued>>

----------------------------------------------------------------------------
(* Bounds of the model.                                                    *)

\* Largest number of User documents the model lets the store hold.
MaxUsers == 2

\* The cap list_requests passes to get_documents.  The source passes
\* limit=100 (src/main.py:126); the model scales it down so that a user
\* with more matching documents than the cap is reachable.
ListLimit == 2

\* Largest number of RequestItem documents: one more than the cap.
MaxRequests == ListLimit + 1

----------------------------------------------------------------------------
(* Optional values.                                                        *)

None == <<>>

Some(x) == <<x>>

IsNone(o) == Len(o) = 0

----------------------------------------------------------------------------
(* Identifiers: bson.objectid.ObjectId as used by the handlers.            *)

\* An ObjectId is 12 bytes, written as 24 hexadecimal characters.
OidLen == 24

HexLower == {"0", "1", "2", "3", "4", "5", "6", "7", "8", "9",
             "a", "b", "c", "d", "e", "f"}

HexUpper == {"A", "B", "C", "D", "E", "F"}

ToLower(c) ==
    CASE c = "A" -> "a" [] c = "B" -> "b" [] c = "C" -> "c"
      [] c = "D" -> "d" [] c = "E" -> "e" [] c = "F" -> "f"
      [] OTHER -> c

\* ObjectId(user_id) raised InvalidId (caught by the handlers' except).
InvalidId == [valid |-> FALSE, hex |-> <<>>]

\* ObjectId(user_id): accepts exactly the 24-character hexadecimal texts,
\* in either letter case; the value it builds is the 12 bytes, held here
\* in their canonical (lower-case) hexadecimal writing.
ObjectId(user_id) ==
    IF Len(user_id) = OidLen
       /\ \A i \in 1..Len(user_id) : user_id[i] \in HexLower \cup HexUpper
    THEN [valid |-> TRUE, hex |-> [i \in 1..OidLen |-> ToLower(user_id[i])]]
    ELSE InvalidId

\* str(oid): the 24 lower-case hexadecimal characters.
Str(oid) == oid.hex

\* The text of n copies of "0" followed by the characters of tail.
Zeros(n, tail) == [i \in 1..n |-> "0"] \o tail

\* The last characters of the keys the driver generates, in the order it
\* generates them: an ObjectId ends in a counter the process increments, so
\* the n-th document a collection receives gets the n-th key.
KeyChars == <<"a", "b", "c", "d", "e">>

\* The key given to the document inserted into a collection holding n.
NewOid(n) == ObjectId(Zeros(OidLen - 1, <<KeyChars[n + 1]>>))

\* Well-formed identifier texts a caller may send: the lower-case writing of
\* a key the store may hand out, the upper-case writing of the same key,
\* and a well-formed key the store never hands out.
IdA == Zeros(OidLen - 1, <<"a">>)

IdAUpper == Zeros(OidLen - 1, <<"A">>)

IdB == Zeros(OidLen - 1, <<"b">>)

IdUnused == Zeros(OidLen - 1, <<"f">>)

\* Malformed identifier texts: too short, too long, a non-hexadecimal
\* character, and a short word.
IdShort == Zeros(OidLen - 1, <<>>)

IdLong == Zeros(OidLen, <<"a">>)

IdNotHex == Zeros(OidLen - 1, <<"g">>)

WellFormedIds == {IdA, IdAUpper, IdB, IdUnused}

MalformedIds == {IdShort, IdLong, IdNotHex}

PathIds == WellFormedIds \cup MalformedIds

----------------------------------------------------------------------------
(* Credential hasher: passlib's CryptContext(schemes=["bcrypt"]).          *)

Salts == {"s1", "s2"}

\* pwd_context.hash(password) with the salt the call drew: the digest
\* carries its salt, and is a function of salt and plaintext.
Hash(password, salt) == [scheme |-> "bcrypt", salt |-> salt, key |-> <<salt, password>>]

\* pwd_context.verify(password, digest): re-hash under the digest's salt.
Verify(password, digest) == Hash(password, digest.salt) = digest

----------------------------------------------------------------------------
(* Inputs the callers send.                                                *)

\* The workers that serve requests concurrently.
Workers == {"w1", "w2"}

\* SignupPayload bodies: two of them for the same email.
SignupPayloads ==
    { [name |-> "Ana", email |-> "ana@x.com", password |-> "pw123"],
      [name |-> "Bo",  email |-> "ana@x.com", password |-> "pw456"],
      [name |-> "Bo",  email |-> "bo@x.com",  password |-> "pw123"] }

\* LoginPayload bodies.
LoginPayloads == [email : {"ana@x.com", "bo@x.com"}, password : {"pw123", "pw456"}]

\* ProfileUpdate bodies: each field absent/null or supplied; the empty text
\* is a supplied (non-null) name.
ProfileUpdates ==
    { [name |-> None,       photo_url |-> None],
      [name |-> Some("Bo"), photo_url |-> None],
      [name |-> Some(""),   photo_url |-> Some("/me.png")],
      [name |-> None,       photo_url |-> Some("/me.png")] }

----------------------------------------------------------------------------
(* Responses.                                                              *)

\* raise HTTPException(status_code=status, detail=detail)
HTTPException(status, detail) == [status |-> status, body |-> [detail |-> detail]]

\* A handler's return value: FastAPI answers 200 with it as the body.
Return(body) == [status |-> 200, body |-> body]

\* An exception no handler catches: FastAPI answers 500.
Unhandled == [status |-> 500, body |-> [detail |-> "Internal Server Error"]]

\* The response of result r to request req of handler op.
Response(op, req, r) == [op |-> op, req |-> req, status |-> r.status, body |-> r.body]

\* A step that answers no caller (a handler that has not returned yet).
NoResponse == [op |-> "none", req |-> <<>>, status |-> 0, body |-> <<>>]

----------------------------------------------------------------------------
(* The "user" collection as pymongo sees it.                               *)

\* Index of the first document of coll (in store order) with field = value,
\* 0 when there is none: db[...].find_one({field: value}) returning a
\* document or None.
FindOne(coll, field, value) ==
    IF \E i \in 1..Len(coll) : coll[i][field] = value
    THEN CHOOSE i \in 1..Len(coll) :
            /\ coll[i][field] = value
            /\ \A j \in 1..(i - 1) : coll[j][field] # value
    ELSE 0

\* The document the store holds for a validated record: the record's
\* fields under the key the store assigned.
StoredDoc(oid, record) ==
    [k \in DOMAIN record \cup {"_id"} |-> IF k = "_id" THEN oid ELSE record[k]]

\* create_document(kind, record): the collection after the record is
\* stored under the next key.
create_document(coll, record) == Append(coll, StoredDoc(NewOid(Len(coll)), record))

\* The key create_document returns for that record, as text.
CreatedId(coll) == Str(NewOid(Len(coll)))

\* User(name=payload.name, email=payload.email, password_hash=hashed,
\*      photo_url=None)
User(payload, hashed) ==
    [name |-> payload.name, email |-> payload.email,
     password_hash |-> hashed, photo_url |-> None]

\* {"id": str(user["_id"]), "email": ..., "name": ...}
IdentityBody(id, email, name) == [id |-> id, email |-> email, name |-> name]

\* {"id": ..., "email": ..., "name": ..., "photo_url": ...} of a document.
ProfileBody(user) ==
    [id |-> Str(user._id), email |-> user.email, name |-> user.name,
     photo_url |-> user.photo_url]

----------------------------------------------------------------------------
(* POST /auth/signup                                                       *)

\* Mutation: the lookup filters on the name instead of the email.
SignupExisting_ByName(us, payload) == FindOne(us, "name", payload.name) # 0

\* existing = db["user"].find_one({"email": payload.email}), as a truth value.
SignupExisting(us, payload) == FindOne(us, "email", payload.email) # 0

\* Mutation: the handler inserts whatever the lookup returned.
SignupRest_NoCheck(payload, existing) ==
    /\ Len(users) < MaxUsers
    /\ \E salt \in Salts :
         LET user_id == CreatedId(users) IN
         /\ users' = create_document(users, User(payload, Hash(payload.password, salt)))
         /\ resp' = Response("signup", payload,
                             Return(IdentityBody(user_id, payload.email, payload.name)))
         /\ issued' = issued \cup
               {[id |-> user_id, email |-> payload.email,
                 name |-> payload.name, password |-> payload.password]}

\* The handler from "if existing:" on, given what the lookup returned.
SignupRest(payload, existing) ==
    IF existing
    THEN /\ resp' = Response("signup", payload,
                             HTTPException(400, "Email already registered"))
         /\ UNCHANGED <<users, issued>>
    ELSE /\ Len(users) < MaxUsers
         /\ \E salt \in Salts :
              LET user_id == CreatedId(users) IN
              /\ users' = create_document(users, User(payload, Hash(payload.password, salt)))
              /\ resp' = Response("signup", payload,
                                  Return(IdentityBody(user_id, payload.email, payload.name)))
              /\ issued' = issued \cup
                    {[id |-> user_id, email |-> payload.email,
                      name |-> payload.name, password |-> payload.password]}

\* A worker runs the lookup of line 47 and holds its result.
SignupLookup(w, payload) ==
    /\ inflight[w].pc = "idle"
    /\ inflight' = [inflight EXCEPT ![w] =
                      [pc |-> "checked", payload |-> payload,
                       existing |-> SignupExisting(users, payload)]]
    /\ resp' = NoResponse
    /\ UNCHANGED <<users, requestitem, issued>>

\* The worker runs lines 48-53 on the lookup result it holds.
SignupInsert(w) ==
    /\ inflight[w].pc = "checked"
    /\ SignupRest(inflight[w].payload, inflight[w].existing)
    /\ inflight' = [inflight EXCEPT ![w].pc = "idle"]
    /\ UNCHANGED requestitem

\* The whole handler as one step, with no other signup in progress.
signup(payload) ==
    /\ \A w \in Workers : inflight[w].pc = "idle"
    /\ SignupRest(payload, SignupExisting(users, payload))
    /\ UNCHANGED <<inflight, requestitem>>

----------------------------------------------------------------------------
(* POST /auth/login                                                        *)

\* Mutation: the identity returned is that of the first stored document
\* instead of the document found.
LoginResult_FirstUser(us, payload) ==
    LET i == FindOne(us, "email", payload.email) IN
    IF i = 0
    THEN HTTPException(400, "Invalid credentials")
    ELSE IF ~Verify(payload.password, us[i].password_hash)
    THEN HTTPException(400, "Invalid credentials")
    ELSE Return(IdentityBody(Str(us[1]._id), us[i].email, us[i].name))

\* Mutation: an unknown email is reported as such.
LoginResult_Distinct(us, payload) ==
    LET i == FindOne(us, "email", payload.email) IN
    IF i = 0
    THEN HTTPException(404, "User not found")
    ELSE IF ~Verify(payload.password, us[i].password_hash)
    THEN HTTPException(400, "Invalid credentials")
    ELSE Return(IdentityBody(Str(us[i]._id), us[i].email, us[i].name))

LoginResult(us, payload) ==
    LET i == FindOne(us, "email", payload.email) IN
    IF i = 0
    THEN HTTPException(400, "Invalid credentials")
    ELSE IF ~Verify(payload.password, us[i].password_hash)
    THEN HTTPException(400, "Invalid credentials")
    ELSE Return(IdentityBody(Str(us[i]._id), us[i].email, us[i].name))

login(payload) ==
    /\ resp' = Response("login", payload, LoginResult(users, payload))
    /\ UNCHANGED <<users, requestitem, inflight, issued>>

----------------------------------------------------------------------------
(* GET /profile/{user_id}                                                  *)

GetProfileResult(us, user_id) ==
    LET oid == ObjectId(user_id) IN
    IF oid = InvalidId
    THEN HTTPException(400, "Invalid user id")
    ELSE LET i == FindOne(us, "_id", oid) IN
         IF i = 0
         THEN HTTPException(404, "User not found")
         ELSE Return(ProfileBody(us[i]))

get_profile(user_id) ==
    /\ resp' = Response("get_profile", [user_id |-> user_id],
                        GetProfileResult(users, user_id))
    /\ UNCHANGED <<users, requestitem, inflight, issued>>

----------------------------------------------------------------------------
(* PUT /profile/{user_id}                                                  *)

ProfileFields == {"name", "photo_url"}

\* Mutation: "if v" in place of "if v is not None" drops the empty text.
UpdateKeys_Truthy(payload) ==
    {k \in ProfileFields : ~IsNone(payload[k]) /\ payload[k][1] # ""}

\* update = {k: v for k, v in payload.model_dump().items() if v is not None}
\* as the set of the keys it holds; the value of key k is payload[k][1].
UpdateKeys(payload) == {k \in ProfileFields : ~IsNone(payload[k])}

\* One document after {"$set": update}.
SetFields(user, payload) ==
    [user EXCEPT
       !.name = IF "name" \in UpdateKeys(payload) THEN payload.name[1] ELSE @,
       !.photo_url = IF "photo_url" \in UpdateKeys(payload)
                     THEN Some(payload.photo_url[1]) ELSE @]

\* db["user"].update_one({"_id": oid}, {"$set": update}): the collection
\* afterwards; nothing is written when no document has the key.
UpdateOne(us, oid, payload) ==
    LET i == FindOne(us, "_id", oid) IN
    IF i = 0 THEN us ELSE [us EXCEPT ![i] = SetFields(us[i], payload)]

\* Mutation: the empty update is answered before the identifier is parsed.
UpdateProfileResult_EmptyFirst(us, user_id, payload) ==
    LET oid == ObjectId(user_id) IN
    IF UpdateKeys(payload) = {}
    THEN [r |-> Return([updated |-> FALSE]), users |-> us]
    ELSE IF oid = InvalidId
    THEN [r |-> HTTPException(400, "Invalid user id"), users |-> us]
    ELSE LET after == UpdateOne(us, oid, payload)
             i == FindOne(after, "_id", oid)
         IN  IF i = 0
             THEN [r |-> Unhandled, users |-> after]
             ELSE [r |-> Return(ProfileBody(after[i])), users |-> after]

\* Mutation: no early return for the empty update; the document is read
\* back and returned as after any other update.
UpdateProfileResult_NoEmptyCheck(us, user_id, payload) ==
    LET oid == ObjectId(user_id) IN
    IF oid = InvalidId
    THEN [r |-> HTTPException(400, "Invalid user id"), users |-> us]
    ELSE LET after == UpdateOne(us, oid, payload)
             i == FindOne(after, "_id", oid)
         IN  IF i = 0
             THEN [r |-> Unhandled, users |-> after]
             ELSE [r |-> Return(ProfileBody(after[i])), users |-> after]

\* The response of lines 76-85 and the collection they leave.
UpdateProfileResult(us, user_id, payload) ==
    LET oid == ObjectId(user_id) IN
    IF oid = InvalidId
    THEN [r |-> HTTPException(400, "Invalid user id"), users |-> us]
    ELSE IF UpdateKeys(payload) = {}
    THEN [r |-> Return([updated |-> FALSE]), users |-> us]
    ELSE LET after == UpdateOne(us, oid, payload)
             i == FindOne(after, "_id", oid)
         IN  \* user is None on a miss, and user["_id"] raises TypeError
             IF i = 0
             THEN [r |-> Unhandled, users |-> after]
             ELSE [r |-> Return(ProfileBody(after[i])), users |-> after]

update_profile(user_id, payload) ==
    LET out == UpdateProfileResult(users, user_id, payload) IN
    /\ users' = out.users
    /\ resp' = Response("update_profile",
                        [user_id |-> user_id, payload |-> payload], out.r)
    /\ UNCHANGED <<requestitem, inflight, issued>>

----------------------------------------------------------------------------
(* The "requestitem" collection and the five submission handlers.          *)

RequestTypes == {"text", "voice", "photo", "contact", "location"}

\* The user_id texts callers submit requests under: one that is the key of
\* the first User once it exists, and one that is no key at all.
RequestUserIds == {IdA, IdNotHex}

Texts == {"hi", ""}

FileNames == {"a.png"}

FileSizes == {3}

\* RequestItem(user_id=..., type=...) with every other field at the default
\* src/schemas.py gives it.
RequestItem(user_id, type) ==
    [user_id |-> user_id, type |-> type, text |-> None, voice_url |-> None,
     photo_url |-> None, contact_name |-> None, contact_phone |-> None,
     location |-> None, status |-> "sent", meta |-> None]

\* Location(lat=lat, lng=lng)
Location(lat, lng) == [lat |-> lat, lng |-> lng]

\* f"/uploads/{file.filename}"
UploadUrl(filename) == "/uploads/" \o filename

\* The common shape of the five handlers: store the item they built and
\* return the body they built around req_id = CreatedId(requestitem).
Submit(op, req, item, body) ==
    /\ Len(requestitem) < MaxRequests
    /\ requestitem' = create_document(requestitem, item)
    /\ resp' = Response(op, req, Return(body))
    /\ UNCHANGED <<users, inflight, issued>>

send_text(user_id, text) ==
    Submit("send_text", [user_id |-> user_id, text |-> text],
           [RequestItem(user_id, "text") EXCEPT !.text = Some(text)],
           LET req_id == CreatedId(requestitem) IN [id |-> req_id, status |-> "ok"])

send_contact(user_id, contact_name, contact_phone) ==
    Submit("send_contact",
           [user_id |-> user_id, contact_name |-> contact_name,
            contact_phone |-> contact_phone],
           [RequestItem(user_id, "contact") EXCEPT
               !.contact_name = Some(contact_name),
               !.contact_phone = Some(contact_phone)],
           LET req_id == CreatedId(requestitem) IN [id |-> req_id, status |-> "ok"])

send_location(user_id, lat, lng) ==
    Submit("send_location", [user_id |-> user_id, lat |-> lat, lng |-> lng],
           [RequestItem(user_id, "location") EXCEPT
               !.location = Some(Location(lat, lng))],
           LET req_id == CreatedId(requestitem) IN [id |-> req_id, status |-> "ok"])

send_photo(user_id, filename, size) ==
    LET photo_url == UploadUrl(filename) IN
    Submit("send_photo",
           [user_id |-> user_id, filename |-> filename, size |-> size],
           [RequestItem(user_id, "photo") EXCEPT
               !.photo_url = Some(photo_url),
               !.meta = Some([size |-> size])],
           LET req_id == CreatedId(requestitem) IN [id |-> req_id, status |-> "ok", photo_url |-> photo_url])

\* Mutation: the handler copied from send_photo keeps its photo_url field.
send_voice_AsPhoto(user_id, filename, size) ==
    LET voice_url == UploadUrl(filename) IN
    Submit("send_voice",
           [user_id |-> user_id, filename |-> filename, size |-> size],
           [RequestItem(user_id, "voice") EXCEPT
               !.photo_url = Some(voice_url),
               !.meta = Some([size |-> size])],
           LET req_id == CreatedId(requestitem) IN [id |-> req_id, status |-> "ok", voice_url |-> voice_url])

send_voice(user_id, filename, size) ==
    LET voice_url == UploadUrl(filename) IN
    Submit("send_voice",
           [user_id |-> user_id, filename |-> filename, size |-> size],
           [RequestItem(user_id, "voice") EXCEPT
               !.voice_url = Some(voice_url),
               !.meta = Some([size |-> size])],
           LET req_id == CreatedId(requestitem) IN [id |-> req_id, status |-> "ok", voice_url |-> voice_url])

----------------------------------------------------------------------------
(* GET /requests/{user_id}                                                 *)

\* The subsequence of coll, in store order, of the documents with
\* field = value.
RECURSIVE Matching(_, _, _)
Matching(coll, field, value) ==
    IF coll = <<>> THEN <<>>
    ELSE (IF Head(coll)[field] = value THEN <<Head(coll)>> ELSE <<>>)
         \o Matching(Tail(coll), field, value)

\* get_documents(kind, {field: value}, limit): the first limit matches.
get_documents(coll, field, value, limit) ==
    LET all == Matching(coll, field, value) IN
    IF Len(all) <= limit THEN all ELSE SubSeq(all, 1, limit)

\* d["id"] = str(d.pop("_id")): the key leaves as _id and returns as id.
ExposeId(d) ==
    [k \in (DOMAIN d \ {"_id"}) \cup {"id"} |-> IF k = "id" THEN Str(d._id) ELSE d[k]]

\* Mutation: the filter on user_id is dropped, so the listing is the first
\* documents of the collection whoever submitted them.
ListRequestsResult_AnyUser(coll, user_id) ==
    LET docs == IF Len(coll) <= ListLimit THEN coll ELSE SubSeq(coll, 1, ListLimit) IN
    Return([i \in 1..Len(docs) |-> ExposeId(docs[i])])

ListRequestsResult(coll, user_id) ==
    LET docs == get_documents(coll, "user_id", user_id, ListLimit) IN
    Return([i \in 1..Len(docs) |-> ExposeId(docs[i])])

list_requests(user_id) ==
    /\ resp' = Response("list_requests", [user_id |-> user_id],
                        ListRequestsResult(requestitem, user_id))
    /\ UNCHANGED <<users, requestitem, inflight, issued>>

----------------------------------------------------------------------------
(* Specifications.                                                         *)

Idle == [pc |-> "idle", payload |-> CHOOSE p \in SignupPayloads : TRUE, existing |-> FALSE]

Init ==
    /\ users = <<>>
    /\ requestitem = <<>>
    /\ inflight = [w \in Workers |-> Idle]
    /\ resp = NoResponse
    /\ issued = {}

\* Signups served concurrently by the workers, and logins.
Next ==
    \/ \E w \in Workers, payload \in SignupPayloads : SignupLookup(w, payload)
    \/ \E w \in Workers : SignupInsert(w)
    \/ \E payload \in LoginPayloads : login(payload)

Spec == Init /\ [][Next]_vars

\* The same handlers, each signup running as one step.
NextSerial ==
    \/ \E payload \in SignupPayloads : signup(payload)
    \/ \E payload \in LoginPayloads : login(payload)
    \/ \E user_id \in PathIds : get_profile(user_id)
    \/ \E user_id \in PathIds, payload \in ProfileUpdates : update_profile(user_id, payload)

SpecSerial == Init /\ [][NextSerial]_vars

\* The request handlers, with the signup that creates the first User.
NextRequests ==
    \/ \E user_id \in RequestUserIds, text \in Texts : send_text(user_id, text)
    \/ \E user_id \in RequestUserIds : send_contact(user_id, "Cy", "555")
    \/ \E user_id \in RequestUserIds : send_location(user_id, 1, 2)
    \/ \E user_id \in RequestUserIds, f \in FileNames, n \in FileSizes :
          send_photo(user_id, f, n)
    \/ \E user_id \in RequestUserIds, f \in FileNames, n \in FileSizes :
          send_voice(user_id, f, n)
    \/ \E user_id \in RequestUserIds : list_requests(user_id)
    \/ \E payload \in {p \in SignupPayloads : p.name = "Ana"} : signup(payload)

SpecRequests == Init /\ [][NextRequests]_vars

----------------------------------------------------------------------------
(* Vocabulary of the properties.                                           *)

\* Some stored User holds the email.
EmailHeld(us, email) == \E i \in 1..Len(us) : us[i].email = email

\* No two stored Users share an email.
NoDuplicateEmail == \A i, j \in 1..Len(users) : users[i].email = users[j].email => i = j

\* The stored User whose key is written id (a text), when there is one.
HasUser(us, id) == \E i \in 1..Len(us) : Str(us[i]._id) = id

UserOf(us, id) == us[CHOOSE i \in 1..Len(us) : Str(us[i]._id) = id]

\* The canonical writing of a well-formed identifier text.
Canonical(user_id) == [i \in 1..Len(user_id) |-> ToLower(user_id[i])]

ProfileOps == {"get_profile", "update_profile"}

ErrorBody(detail) == [detail |-> detail]

----------------------------------------------------------------------------
(* C1: signup then login.                                                  *)

\* A signup whose email no stored User holds succeeds, and returns an
\* identifier no stored User had, with the payload's email and name.
SignupFreshStep ==
    (resp'.op = "signup" /\ ~EmailHeld(users, resp'.req.email)) =>
        /\ resp'.status = 200
        /\ ~HasUser(users, resp'.body.id)
        /\ HasUser(users', resp'.body.id)
        /\ resp'.body.email = resp'.req.email
        /\ resp'.body.name = resp'.req.name

\* The account a login's credentials were issued for: the one successful
\* signup with that email and that password.
IssuedFor(payload) ==
    {g \in issued : /\ g.email = payload.email
                    /\ g.password = payload.password
                    /\ \A h \in issued : h.email = g.email => h = g}

\* C1 as stated: a login with the credentials of a successful signup
\* returns the identifier, the email and the name that signup returned.
C1_LoginReturnsSignupName ==
    resp.op = "login" =>
        \A g \in IssuedFor(resp.req) :
            /\ resp.status = 200
            /\ resp.body = IdentityBody(g.id, g.email, g.name)

\* The login part of C1 with the name read from the store.
LoginReturnsStoredName ==
    resp.op = "login" =>
        \A g \in IssuedFor(resp.req) :
            /\ resp.status = 200
            /\ HasUser(users, g.id)
            /\ resp.body = IdentityBody(g.id, g.email, UserOf(users, g.id).name)

\* C1 (amended): every signup with a valid payload whose email no stored
\* User holds succeeds and returns an identifier no previously stored User
\* has; any later login with that email and password succeeds and returns
\* that identifier, the same email, and the name the User record holds at
\* the time of the login (the signup's name unless a profile update has
\* changed it).
C1_SignupThenLogin == [][SignupFreshStep]_vars /\ []LoginReturnsStoredName

\* A login with issued credentials has succeeded after a profile update
\* renamed the User.
C1_Witness ==
    /\ resp.op = "login"
    /\ resp.status = 200
    /\ \E g \in IssuedFor(resp.req) : g.id = resp.body.id /\ g.name # resp.body.name

----------------------------------------------------------------------------
(* C2: duplicate email, signups one at a time.                             *)

DuplicateSignupStep ==
    (resp'.op = "signup" /\ EmailHeld(users, resp'.req.email)) =>
        /\ resp'.status = 400
        /\ resp'.body = ErrorBody("Email already registered")
        /\ users' = users

\* C2: with each signup running as one step, a signup whose email a stored
\* User holds fails with 400 "Email already registered" and leaves the
\* stored Users unchanged; no two stored Users share an email.
C2_DuplicateRejected == [][DuplicateSignupStep]_vars /\ []NoDuplicateEmail

\* A signup for a held email has been refused, a second User being stored
\* under another email.
C2_Witness ==
    /\ resp.op = "signup"
    /\ resp.status = 400
    /\ EmailHeld(users, resp.req.email)
    /\ Len(users) = 2

----------------------------------------------------------------------------
(* C3: the two login failures are indistinguishable.                       *)

UnknownEmail(payload) == ~EmailHeld(users, payload.email)

WrongPassword(payload) ==
    /\ EmailHeld(users, payload.email)
    /\ ~Verify(payload.password, users[FindOne(users, "email", payload.email)].password_hash)

InvalidCredentials == HTTPException(400, "Invalid credentials")

\* Against one store, a login for an unknown email and a login with a
\* wrong password get the same status and the same body, and so does the
\* login just answered when it failed for either cause.
LoginFailuresAlike ==
    /\ \A p1, p2 \in LoginPayloads :
          (UnknownEmail(p1) /\ WrongPassword(p2)) =>
              /\ LoginResult(users, p1) = LoginResult(users, p2)
              /\ LoginResult(users, p1) = InvalidCredentials
    /\ (resp.op = "login" /\ (UnknownEmail(resp.req) \/ WrongPassword(resp.req))) =>
          [status |-> resp.status, body |-> resp.body] = InvalidCredentials

LoginReadsOnly == resp'.op = "login" => users' = users

\* C3: a login whose email matches no stored User and a login whose
\* password does not verify get the identical response, 400 "Invalid
\* credentials", and neither changes the store.
C3_LoginFailuresIndistinguishable == []LoginFailuresAlike /\ [][LoginReadsOnly]_vars

\* A login has failed on the password while another email is unknown.
C3_Witness ==
    /\ resp.op = "login"
    /\ WrongPassword(resp.req)
    /\ \E p \in LoginPayloads : UnknownEmail(p)

----------------------------------------------------------------------------
(* C4: malformed identifiers.                                              *)

MalformedAnswered ==
    (resp.op \in ProfileOps /\ resp.req.user_id \in MalformedIds) =>
        /\ resp.status = 400
        /\ resp.body = ErrorBody("Invalid user id")

MalformedWritesNothing ==
    (resp'.op \in ProfileOps /\ resp'.req.user_id \in MalformedIds) => users' = users

\* C4: for an identifier that is not 24 hexadecimal characters, profile
\* GET and profile PUT (whatever the body) answer 400 "Invalid user id",
\* never 404 and never a success body, and leave the Users unchanged.
C4_MalformedIdIsClientError == []MalformedAnswered /\ [][MalformedWritesNothing]_vars

\* A PUT with an empty body on a malformed identifier has been answered
\* while a User is stored.
C4_Witness ==
    /\ resp.op = "update_profile"
    /\ resp.req.user_id \in MalformedIds
    /\ resp.req.payload = [name |-> None, photo_url |-> None]
    /\ Len(users) > 0

----------------------------------------------------------------------------
(* C5: the empty update.                                                   *)

EmptyUpdate(r) ==
    /\ r.op = "update_profile"
    /\ r.req.user_id \in WellFormedIds
    /\ IsNone(r.req.payload.name)
    /\ IsNone(r.req.payload.photo_url)

EmptyUpdateAnswered ==
    EmptyUpdate(resp) => resp.status = 200 /\ resp.body = [updated |-> FALSE]

EmptyUpdateWritesNothing == EmptyUpdate(resp') => users' = users

\* C5: a profile PUT on a well-formed identifier with no non-null field
\* returns {updated: false} and leaves every stored record unchanged,
\* whether or not a User with that identifier exists.
C5_EmptyUpdateIsNoOp == []EmptyUpdateAnswered /\ [][EmptyUpdateWritesNothing]_vars

\* An empty PUT has been answered for an existing User.
C5_Witness == EmptyUpdate(resp) /\ HasUser(users, Canonical(resp.req.user_id))

----------------------------------------------------------------------------
(* C6: profile update is idempotent and touches only name and photo_url.   *)

UpdateOfExisting(r, us) ==
    /\ r.op = "update_profile"
    /\ r.req.user_id \in WellFormedIds
    /\ HasUser(us, Canonical(r.req.user_id))

\* Applying the PUT just answered once more gives the same response and
\* leaves the same Users.
UpdateRepeatable ==
    UpdateOfExisting(resp, users) =>
        UpdateProfileResult(users, resp.req.user_id, resp.req.payload)
            = [r |-> [status |-> resp.status, body |-> resp.body], users |-> users]

\* The PUT set each supplied field of its User and changed nothing else.
UpdateFrame ==
    UpdateOfExisting(resp', users) =>
        /\ Len(users') = Len(users)
        /\ \A i \in 1..Len(users) :
              LET target == Str(users[i]._id) = Canonical(resp'.req.user_id)
                  body == resp'.req.payload
              IN  /\ users'[i]._id = users[i]._id
                  /\ users'[i].email = users[i].email
                  /\ users'[i].password_hash = users[i].password_hash
                  /\ users'[i].name =
                        IF target /\ ~IsNone(body.name) THEN body.name[1]
                        ELSE users[i].name
                  /\ users'[i].photo_url =
                        IF target /\ ~IsNone(body.photo_url) THEN body.photo_url
                        ELSE users[i].photo_url

\* C6: for every existing User and every update body, the same PUT
\* applied again results in the same stored record and the same response;
\* the update changes only the supplied non-null fields among name and
\* photo_url, never the id, email or password_hash.
C6_UpdateIdempotent == []UpdateRepeatable /\ [][UpdateFrame]_vars

\* A PUT supplying the empty name and a photo has been answered for the
\* second of two Users.
C6_Witness ==
    /\ UpdateOfExisting(resp, users)
    /\ resp.req.payload = [name |-> Some(""), photo_url |-> Some("/me.png")]
    /\ Len(users) = 2
    /\ Str(users[2]._id) = Canonical(resp.req.user_id)
    /\ users[2].name = ""

----------------------------------------------------------------------------
(* C9: a profile lookup miss.                                              *)

ProfileMiss(r, us) ==
    /\ r.op \in ProfileOps
    /\ r.req.user_id \in WellFormedIds
    /\ ~HasUser(us, Canonical(r.req.user_id))
    /\ r.op = "update_profile" =>
          ~(IsNone(r.req.payload.name) /\ IsNone(r.req.payload.photo_url))

\* C9: for a well-formed identifier matching no stored User, profile GET
\* returns 404, and profile PUT with at least one non-null field returns
\* 404 too, not a success body and not an unhandled failure.
C9_MissIsNotFound ==
    ProfileMiss(resp, users) =>
        /\ resp.status = 404
        /\ resp.body = ErrorBody("User not found")

----------------------------------------------------------------------------
(* C8: the check-then-insert race of signup.                               *)

\* What a worker's lookup holds is what the store held when it looked.
LookupAccurate ==
    \A w \in Workers :
        (inflight[w].pc = "idle" /\ inflight'[w].pc = "checked") =>
            inflight'[w].existing = EmailHeld(users, inflight'[w].payload.email)

\* A User is stored under an email another User holds only by a worker
\* whose lookup found the email free before that other User was inserted.
DuplicateOnlyByStaleLookup ==
    (Len(users') > Len(users) /\ EmailHeld(users, users'[Len(users')].email)) =>
        \E w \in Workers :
            /\ inflight[w].pc = "checked"
            /\ inflight'[w].pc = "idle"
            /\ inflight[w].payload.email = users'[Len(users')].email
            /\ ~inflight[w].existing
            /\ resp'.op = "signup"
            /\ resp'.status = 200

\* C8: two Users with one email come to be stored only when a signup
\* inserts between another signup's lookup and insert (both looked before
\* either inserted), and then both signups succeed; a signup whose lookup
\* still describes the store when it inserts never stores a duplicate.
C8_RaceNeedsInterleaving == [][LookupAccurate /\ DuplicateOnlyByStaleLookup]_vars

\* Two signups for one email have both succeeded and both Users are stored.
C8_Witness ==
    /\ ~NoDuplicateEmail
    /\ resp.op = "signup"
    /\ resp.status = 200
    /\ \E g, h \in issued : g.email = h.email /\ g.id # h.id
    /\ \A w \in Workers : inflight[w].pc = "idle"

----------------------------------------------------------------------------
(* C7: listing a user's requests.                                          *)

\* The stored RequestItems submitted under user_id u, as indices.
ItemsOf(u) == {i \in 1..Len(requestitem) : requestitem[i].user_id = u}

TypeOfOp(op) ==
    CASE op = "send_text" -> "text"
      [] op = "send_contact" -> "contact"
      [] op = "send_location" -> "location"
      [] op = "send_photo" -> "photo"
      [] op = "send_voice" -> "voice"

SubmitOps == {"send_text", "send_contact", "send_location", "send_photo", "send_voice"}

\* The document d as the listing shows it.
Listed(d, e) ==
    /\ e.id = Str(d._id)
    /\ e.user_id = d.user_id
    /\ e.type = d.type
    /\ e.status = d.status
    /\ e.text = d.text /\ e.voice_url = d.voice_url /\ e.photo_url = d.photo_url
    /\ e.contact_name = d.contact_name /\ e.contact_phone = d.contact_phone
    /\ e.location = d.location /\ e.meta = d.meta

ListingRight ==
    resp.op = "list_requests" =>
        LET u == resp.req.user_id
            out == resp.body
        IN  /\ resp.status = 200
            /\ Len(out) <= ListLimit
            /\ \A k \in 1..Len(out) :
                  /\ out[k].user_id = u
                  /\ out[k].status = "sent"
                  /\ \E i \in ItemsOf(u) : Listed(requestitem[i], out[k])
            /\ \A k, l \in 1..Len(out) : out[k].id = out[l].id => k = l
            /\ Cardinality(ItemsOf(u)) <= ListLimit =>
                  \A i \in ItemsOf(u) : \E k \in 1..Len(out) : Listed(requestitem[i], out[k])

\* A submission stores one new document with the submitter's user_id, the
\* type of the operation and status "sent", under the key it returns.
SubmissionStored ==
    resp'.op \in SubmitOps =>
        /\ Len(requestitem') = Len(requestitem) + 1
        /\ LET d == requestitem'[Len(requestitem')] IN
              /\ d.user_id = resp'.req.user_id
              /\ d.type = TypeOfOp(resp'.op)
              /\ d.status = "sent"
              /\ Str(d._id) = resp'.body.id
              /\ \A i \in 1..Len(requestitem) : requestitem[i]._id # d._id

\* C7: GET /requests/{u} returns only RequestItems whose user_id is u, at
\* most the cap of them, each with its store key as the field id; when at
\* most the cap exist for u it returns every one submitted under u exactly
\* once, with the type of the operation that created it and status
\* "sent", whether or not a User with id u exists.
C7_ListingByUser == []ListingRight /\ [][SubmissionStored]_vars

\* A listing has returned two requests of different types for a user_id
\* no User can have, a request of another user being stored as well.
C7_Witness ==
    /\ resp.op = "list_requests"
    /\ resp.req.user_id = IdNotHex
    /\ Len(resp.body) = 2
    /\ resp.body[1].type # resp.body[2].type
    /\ Len(requestitem) = 3

----------------------------------------------------------------------------
(* C10: the fields of a RequestItem follow its type.                       *)

FieldsFollowType(d) ==
    /\ d.type \in RequestTypes
    /\ ~IsNone(d.text) <=> d.type = "text"
    /\ ~IsNone(d.contact_name) <=> d.type = "contact"
    /\ ~IsNone(d.contact_phone) <=> d.type = "contact"
    /\ ~IsNone(d.location) <=> d.type = "location"
    /\ ~IsNone(d.photo_url) <=> d.type = "photo"
    /\ ~IsNone(d.voice_url) <=> d.type = "voice"

StoredItemsKept ==
    /\ Len(requestitem') >= Len(requestitem)
    /\ \A i \in 1..Len(requestitem) : requestitem'[i] = requestitem[i]

\* C10: every stored RequestItem has a type among text, voice, photo,
\* contact, location and exactly the payload fields of that type are
\* non-null; no operation modifies or deletes a stored RequestItem.
C10_FieldsFollowType ==
    /\ [](\A i \in 1..Len(requestitem) : FieldsFollowType(requestitem[i]))
    /\ [][StoredItemsKept]_vars

\* A voice request, a text request with the empty text and a contact
\* request are stored.
C10_Witness ==
    /\ Len(requestitem) = 3
    /\ \E i \in 1..3 : requestitem[i].type = "voice"
    /\ \E i \in 1..3 : requestitem[i].type = "text" /\ requestitem[i].text = Some("")
    /\ \E i \in 1..3 : requestitem[i].type = "contact"

====
